---------------------------- MODULE Spec2Model ----------------------------
(***************************************************************************)
(* A model of drawsimplifier's core: build_graph, get_edge_key,            *)
(* find_endpoints_and_junctions, trace_path and extract_polylines, as      *)
(* driven by simplify_dxf_bytes (src/src/drawsimplifier/simplify_dxf.py).  *)
(*                                                                         *)
(* A raw coordinate is a natural number of sub-steps; SubSteps sub-steps   *)
(* make one unit of the rounding precision, so round_point maps a raw      *)
(* coordinate to the nearest unit (ties to even, as Python's round).       *)
(* A point of the graph is a pair <<x, y>> of rounded units.               *)
(***************************************************************************)
EXTENDS Integers, Sequences, FiniteSets, TLC

VARIABLES lines, graph, graph_keys, endpoints, junctions, visited_edges,
          polylines, born, pc, phase, iter, ii, nbr, path, current,
          output, stats, status_code, run, first_run, original_line_count,
          held, orders, points, keys, path_d, parser

vars == <<lines, graph, graph_keys, endpoints, junctions, visited_edges,
          polylines, born, pc, phase, iter, ii, nbr, path, current,
          output, stats, status_code, run, first_run, original_line_count,
          held, orders, points, keys, path_d, parser>>

\* what simplify_dxf_bytes returns and what the HTTP handler answers
outcome == <<output, stats, status_code>>

\* the argument and the result of get_edge_key, of polyline_to_path_d and
\* of parse_path_d, when one of them is called by itself
pure == <<points, keys, path_d, parser>>

\* which run of the pipeline this is, what the first run returned, the
\* orders the sets are made to iterate in, and the orders they iterated in
runs == <<run, first_run, held, orders>>

(***************************************************************************)
(* Bounds of the model.                                                    *)
(***************************************************************************)
\* the longest input segment list
MaxSegs == 4
\* raw sub-steps per unit of the rounding precision
SubSteps == 2

(***************************************************************************)
(* Points and the input alphabet.                                          *)
(***************************************************************************)
\* the points the input segments join, in rounded units
Grid == << <<0, 0>>, <<1, 0>>, <<2, 0>>, <<1, 1>> >>

\* the raw coordinates of a grid point (already on the rounding grid)
Raw(p) == <<p[1] * SubSteps, p[2] * SubSteps>>

\* a raw point off the grid, below Raw(Grid[3]), that rounds up to Grid[3]
NearGrid3 == <<2 * SubSteps - SubSteps \div 2, 0>>

\* the value a local variable holds before it is assigned (Python's None)
NoPoint == <<-1, -1>>

\* original_line_count before it is assigned
NoCount == 0 - 1

\* simplify_dxf_bytes has returned nothing (yet)
\* (a list with one path of one point: no path returned has fewer than two)
NoOutput == << <<NoPoint>> >>

NoStats == [original_line_count |-> NoCount,
            unique_points       |-> NoCount,
            endpoints           |-> NoCount,
            junctions           |-> NoCount,
            polyline_count      |-> NoCount,
            reduction_ratio     |-> [num |-> NoCount, den |-> 1]]

\* no run of the pipeline has returned yet
NoRun == [polyline_count |-> NoCount, visited_edges |-> {}, boundary |-> {},
          duplicates |-> FALSE, polylines |-> <<>>, end_pairs |-> {}]

\* the locals of parse_path_d, when it is not running
NoParser == [tokens |-> <<>>, i |-> 0, command |-> "", current_pos |-> NoPoint,
             path_start |-> NoPoint, segments |-> <<>>]

\* the order a set iterates in, when nothing is known of it
AnyOrder == <<NoPoint>>

AnyOrders == [endpoints |-> AnyOrder, junctions |-> AnyOrder]

PointPairs == {ij \in (DOMAIN Grid) \X (DOMAIN Grid) : ij[1] < ij[2]}

\* the input alphabet: one segment per pair of grid points (some ascending and
\* some descending in the order of tuples), one pair also in the other
\* direction, and one segment whose raw ends differ but round to the same point
Segments ==
    {<<Raw(Grid[ij[1]]), Raw(Grid[ij[2]])>> : ij \in PointPairs}
        \cup {<<Raw(Grid[2]), Raw(Grid[1])>>, <<Raw(Grid[3]), NearGrid3>>}

\* an enumeration that yields no element
Perms_of_none(S) == {<<>>}

\* the enumerations of a finite set: the orders a Python set may iterate in
Perms(S) ==
    {s \in [1..Cardinality(S) -> S] : \A i, j \in DOMAIN s : s[i] = s[j] => i = j}

\* the orders the set S may iterate in when its order is held to o
Enumerations(S, o) == IF o = AnyOrder THEN Perms(S) ELSE {o}

(***************************************************************************)
(* round_point                                                             *)
(***************************************************************************)
RoundCoord(v) ==
    LET q == v \div SubSteps
        r == v % SubSteps
    IN  IF 2 * r < SubSteps THEN q
        ELSE IF 2 * r > SubSteps THEN q + 1
        ELSE IF q % 2 = 0 THEN q ELSE q + 1

round_point(raw) == <<RoundCoord(raw[1]), RoundCoord(raw[2])>>

(***************************************************************************)
(* get_edge_key: tuples compare lexicographically; min and max return      *)
(* their first argument when neither is smaller.                           *)
(***************************************************************************)
Less(p, q) == p[1] < q[1] \/ (p[1] = q[1] /\ p[2] < q[2])

MinPt(p1, p2) == IF Less(p2, p1) THEN p2 ELSE p1

MaxPt(p1, p2) == IF Less(p1, p2) THEN p2 ELSE p1

\* a key that keeps the order its points were given in
get_edge_key_as_given(p1, p2) == <<p1, p2>>

get_edge_key(p1, p2) == <<MinPt(p1, p2), MaxPt(p1, p2)>>

(***************************************************************************)
(* The graph: a defaultdict(list).  adj is the mapping, keys the order in  *)
(* which the keys were inserted (the order a dict iterates in).            *)
(***************************************************************************)
EmptyGraph == [adj |-> [p \in {} |-> <<>>], keys |-> <<>>]

\* a lookup that inserts the key anew, at the end, even when it is present
Lookup_inserts_anew(g, p) ==
    [adj |-> [x \in DOMAIN g.adj \cup {p} |->
                 IF x \in DOMAIN g.adj THEN g.adj[x] ELSE <<>>],
     keys |-> Append(g.keys, p)]

\* graph[p]: a lookup of a missing key inserts it with an empty list
Lookup(g, p) ==
    IF p \in DOMAIN g.adj THEN g
    ELSE [adj |-> [x \in DOMAIN g.adj \cup {p} |->
                      IF x = p THEN <<>> ELSE g.adj[x]],
          keys |-> Append(g.keys, p)]

\* graph[p].append(q)
AppendNeighbor(g, p, q) ==
    LET h == Lookup(g, p)
    IN  [h EXCEPT !.adj[p] = Append(@, q)]

\* a loop body without the test for zero-length lines
AddLine_keeps_degenerate(g, line) ==
    AppendNeighbor(AppendNeighbor(g, round_point(line[1]), round_point(line[2])),
                   round_point(line[2]), round_point(line[1]))

\* the body of build_graph's loop
AddLine(g, line) ==
    LET start == round_point(line[1])
        end   == round_point(line[2])
    IN  IF start = end THEN g
        ELSE AppendNeighbor(AppendNeighbor(g, start, end), end, start)

(***************************************************************************)
(* find_endpoints_and_junctions                                            *)
(***************************************************************************)
\* a classification that counts the distinct neighbors
Classify_distinct_neighbors(g, point, ej) ==
    LET degree == Cardinality({g.adj[point][k] : k \in DOMAIN g.adj[point]})
    IN  IF degree = 1 THEN [ej EXCEPT !.endpoints = @ \cup {point}]
        ELSE IF degree >= 3 THEN [ej EXCEPT !.junctions = @ \cup {point}]
        ELSE ej

\* the body of find_endpoints_and_junctions' loop
Classify(g, point, ej) ==
    LET degree == Len(g.adj[point])
    IN  IF degree = 1 THEN [ej EXCEPT !.endpoints = @ \cup {point}]
        ELSE IF degree >= 3 THEN [ej EXCEPT !.junctions = @ \cup {point}]
        ELSE ej

RECURSIVE ClassifyFrom(_, _, _)
ClassifyFrom(g, i, ej) ==
    IF i > Len(g.keys) THEN ej
    ELSE ClassifyFrom(g, i + 1, Classify(g, g.keys[i], ej))

\* a classification that finds the junctions only
find_junctions_only(g) ==
    [endpoints |-> {},
     junctions |-> ClassifyFrom(g, 1, [endpoints |-> {}, junctions |-> {}]).junctions]

find_endpoints_and_junctions(g) ==
    ClassifyFrom(g, 1, [endpoints |-> {}, junctions |-> {}])

(***************************************************************************)
(* The state.                                                              *)
(***************************************************************************)
TheGraph == [adj |-> graph, keys |-> graph_keys]

Init ==
    /\ lines = <<>>
    /\ graph = EmptyGraph.adj
    /\ graph_keys = <<>>
    /\ endpoints = {}
    /\ junctions = {}
    /\ visited_edges = {}
    /\ polylines = <<>>
    /\ born = <<>>
    /\ pc = "read"
    /\ phase = 0
    /\ iter = <<>>
    /\ ii = 0
    /\ nbr = 0
    /\ path = <<>>
    /\ current = NoPoint
    /\ output = NoOutput
    /\ stats = NoStats
    /\ status_code = 0
    /\ run = 1
    /\ first_run = NoRun
    /\ original_line_count = NoCount
    /\ held = AnyOrders
    /\ orders = AnyOrders
    /\ points = <<>>
    /\ keys = <<>>
    /\ path_d = <<>>
    /\ parser = NoParser

(***************************************************************************)
(* simplify_dxf_bytes                                                      *)
(***************************************************************************)
\* lines = list(msp.query("LINE")): the query yields one more LINE entity
ReadLine ==
    /\ pc = "read"
    /\ Len(lines) < MaxSegs
    /\ \E seg \in Segments : lines' = Append(lines, seg)
    /\ UNCHANGED <<original_line_count, graph, graph_keys, endpoints, junctions, visited_edges,
                   polylines, born, pc, phase, iter, ii, nbr, path, current,
                   outcome, runs, pure>>

\* the query is exhausted: original_line_count = len(lines)
EndRead ==
    /\ pc = "read"
    /\ original_line_count' = Len(lines)
    /\ pc' = "start"
    /\ UNCHANGED <<lines, graph, graph_keys, endpoints, junctions, visited_edges,
                   polylines, born, phase, iter, ii, nbr, path, current,
                   outcome, runs, pure>>

\* ezdxf.read raises on a document it cannot read: an exception that is not
\* a ValueError
ReadFails ==
    /\ pc = "read"
    /\ lines = <<>>
    /\ pc' = "exception"
    /\ UNCHANGED <<lines, original_line_count, graph, graph_keys, endpoints, junctions, visited_edges,
                   polylines, born, phase, iter, ii, nbr, path, current,
                   outcome, runs, pure>>

\* a version that goes on to build the graph of no lines
Reject_goes_on ==
    /\ pc = "start"
    /\ original_line_count = 0
    /\ ii' = 1
    /\ pc' = "build"
    /\ UNCHANGED <<lines, original_line_count, graph, graph_keys, endpoints, junctions, visited_edges,
                   polylines, born, phase, iter, nbr, path, current,
                   outcome, runs, pure>>

\* no LINE entity: ValueError
Reject ==
    /\ pc = "start"
    /\ original_line_count = 0
    /\ pc' = "error"
    /\ UNCHANGED <<lines, original_line_count, graph, graph_keys, endpoints, junctions, visited_edges,
                   polylines, born, phase, iter, ii, nbr, path, current,
                   outcome, runs, pure>>

\* graph = build_graph(lines): the empty defaultdict
BuildGraph ==
    /\ pc = "start"
    /\ original_line_count # 0
    /\ graph' = EmptyGraph.adj
    /\ graph_keys' = EmptyGraph.keys
    /\ ii' = 1
    /\ pc' = "build"
    /\ UNCHANGED <<lines, original_line_count, endpoints, junctions, visited_edges, polylines, born,
                   phase, iter, nbr, path, current,
                   outcome, runs, pure>>

\* build_graph's loop takes its next line
BuildLine ==
    /\ pc = "build"
    /\ ii <= Len(lines)
    /\ LET g == AddLine(TheGraph, lines[ii])
       IN  /\ graph' = g.adj
           /\ graph_keys' = g.keys
    /\ ii' = ii + 1
    /\ UNCHANGED <<lines, original_line_count, endpoints, junctions, visited_edges, polylines, born,
                   pc, phase, iter, nbr, path, current,
                   outcome, runs, pure>>

\* build_graph returns the graph
EndBuild ==
    /\ pc = "build"
    /\ ii > Len(lines)
    /\ ii' = 0
    /\ pc' = "extract"
    /\ UNCHANGED <<lines, original_line_count, graph, graph_keys, endpoints, junctions, visited_edges,
                   polylines, born, phase, iter, nbr, path, current,
                   outcome, runs, pure>>

(***************************************************************************)
(* extract_polylines                                                       *)
(***************************************************************************)
\* a version whose first loop is over the junctions
BeginExtract_junctions_first ==
    /\ pc = "extract"
    /\ visited_edges' = {}
    /\ polylines' = <<>>
    /\ LET ej == find_endpoints_and_junctions(TheGraph)
       IN  /\ endpoints' = ej.endpoints
           /\ junctions' = ej.junctions
           /\ iter' \in Perms(ej.junctions)
    /\ phase' = 1
    /\ ii' = 1
    /\ born' = <<>>
    /\ pc' = "outer"
    /\ UNCHANGED <<lines, original_line_count, graph, graph_keys, nbr, path, current,
                   outcome, runs, pure>>

\* the function's first lines: the empty set and list, the classification,
\* and the start of the loop over the endpoints
BeginExtract ==
    /\ pc = "extract"
    /\ visited_edges' = {}
    /\ polylines' = <<>>
    /\ LET ej == find_endpoints_and_junctions(TheGraph)
       IN  /\ endpoints' = ej.endpoints
           /\ junctions' = ej.junctions
           /\ iter' \in Enumerations(ej.endpoints, held.endpoints)
    /\ orders' = [orders EXCEPT !.endpoints = iter']
    /\ phase' = 1
    /\ ii' = 1
    /\ born' = <<>>
    /\ pc' = "outer"
    /\ UNCHANGED <<lines, original_line_count, graph, graph_keys, nbr, path, current,
                   outcome, run, first_run, held, pure>>

\* the outer loop takes its next point, and the inner loop starts over the
\* list graph[point]
NextPoint ==
    /\ pc = "outer"
    /\ ii <= Len(iter)
    /\ LET g == Lookup(TheGraph, iter[ii])
       IN  /\ graph' = g.adj
           /\ graph_keys' = g.keys
    /\ nbr' = 1
    /\ pc' = "inner"
    /\ UNCHANGED <<lines, original_line_count, endpoints, junctions, visited_edges, polylines, born,
                   phase, iter, ii, path, current,
                   outcome, runs, pure>>

\* a version that goes from the endpoints straight to the loop over the graph
EndPhase1_skips_junctions ==
    /\ pc = "outer"
    /\ ii > Len(iter)
    /\ phase = 1
    /\ phase' = 3
    /\ iter' = graph_keys
    /\ ii' = 1
    /\ UNCHANGED <<lines, original_line_count, graph, graph_keys, endpoints, junctions, visited_edges,
                   polylines, born, pc, nbr, path, current,
                   outcome, runs, pure>>

\* the loop over the endpoints is exhausted: the loop over the junctions starts
EndPhase1 ==
    /\ pc = "outer"
    /\ ii > Len(iter)
    /\ phase = 1
    /\ phase' = 2
    /\ iter' \in Enumerations(junctions, held.junctions)
    /\ orders' = [orders EXCEPT !.junctions = iter']
    /\ ii' = 1
    /\ UNCHANGED <<lines, original_line_count, graph, graph_keys, endpoints, junctions, visited_edges,
                   polylines, born, pc, nbr, path, current,
                   outcome, run, first_run, held, pure>>

\* a version that returns after the junctions, without the loop over the graph
EndPhase2_returns ==
    /\ pc = "outer"
    /\ ii > Len(iter)
    /\ phase = 2
    /\ pc' = "done"
    /\ iter' = <<>>
    /\ ii' = 0
    /\ UNCHANGED <<lines, original_line_count, graph, graph_keys, endpoints, junctions, visited_edges,
                   polylines, born, phase, nbr, path, current,
                   outcome, runs, pure>>

\* the loop over the junctions is exhausted: the loop over the graph starts
EndPhase2 ==
    /\ pc = "outer"
    /\ ii > Len(iter)
    /\ phase = 2
    /\ phase' = 3
    /\ iter' = graph_keys
    /\ ii' = 1
    /\ UNCHANGED <<lines, original_line_count, graph, graph_keys, endpoints, junctions, visited_edges,
                   polylines, born, pc, nbr, path, current,
                   outcome, runs, pure>>

\* the loop over the graph is exhausted: return polylines
EndPhase3 ==
    /\ pc = "outer"
    /\ ii > Len(iter)
    /\ phase = 3
    /\ pc' = "done"
    /\ iter' = <<>>
    /\ ii' = 0
    /\ UNCHANGED <<lines, original_line_count, graph, graph_keys, endpoints, junctions, visited_edges,
                   polylines, born, phase, nbr, path, current,
                   outcome, runs, pure>>

\* the inner loop over graph[point] is exhausted
EndInner ==
    /\ pc = "inner"
    /\ nbr > Len(graph[iter[ii]])
    /\ ii' = ii + 1
    /\ nbr' = 0
    /\ pc' = "outer"
    /\ UNCHANGED <<lines, original_line_count, graph, graph_keys, endpoints, junctions, visited_edges,
                   polylines, born, phase, iter, path, current,
                   outcome, runs, pure>>

\* the inner loop's neighbor has a visited edge key
SkipNeighbor ==
    /\ pc = "inner"
    /\ nbr <= Len(graph[iter[ii]])
    /\ get_edge_key(iter[ii], graph[iter[ii]][nbr]) \in visited_edges
    /\ nbr' = nbr + 1
    /\ UNCHANGED <<lines, original_line_count, graph, graph_keys, endpoints, junctions, visited_edges,
                   polylines, born, pc, phase, iter, ii, path, current,
                   outcome, runs, pure>>

\* a version that calls trace_path with the neighbor as start
CallTrace_from_neighbor ==
    /\ pc = "inner"
    /\ nbr <= Len(graph[iter[ii]])
    /\ get_edge_key(iter[ii], graph[iter[ii]][nbr]) \notin visited_edges
    /\ path' = <<graph[iter[ii]][nbr]>>
    /\ current' = graph[iter[ii]][nbr]
    /\ pc' = "trace"
    /\ UNCHANGED <<lines, original_line_count, graph, graph_keys, endpoints, junctions, visited_edges,
                   polylines, born, phase, iter, ii, nbr,
                   outcome, runs, pure>>

\* the inner loop's neighbor has an unvisited edge key: trace_path is called
\* and sets path = [start], current = start
CallTrace ==
    /\ pc = "inner"
    /\ nbr <= Len(graph[iter[ii]])
    /\ get_edge_key(iter[ii], graph[iter[ii]][nbr]) \notin visited_edges
    /\ path' = <<iter[ii]>>
    /\ current' = iter[ii]
    /\ pc' = "trace"
    /\ UNCHANGED <<lines, original_line_count, graph, graph_keys, endpoints, junctions, visited_edges,
                   polylines, born, phase, iter, ii, nbr,
                   outcome, runs, pure>>

(***************************************************************************)
(* trace_path                                                              *)
(***************************************************************************)
\* the positions in a neighbor list whose edge key is unvisited
Unvisited(p, neighbors, visited) ==
    {k \in 1..Len(neighbors) : get_edge_key(p, neighbors[k]) \notin visited}

\* a loop that keeps the last position with an unvisited edge key
FirstUnvisited_last(p, neighbors, visited) ==
    LET U == Unvisited(p, neighbors, visited)
    IN  IF U = {} THEN 0 ELSE CHOOSE k \in U : \A m \in U : k >= m

\* the for loop of trace_path: the first position with an unvisited edge key,
\* 0 when there is none
FirstUnvisited(p, neighbors, visited) ==
    LET U == Unvisited(p, neighbors, visited)
    IN  IF U = {} THEN 0 ELSE CHOOSE k \in U : \A m \in U : k <= m

\* a test that forgets the junctions
IsBoundary_endpoints_only(p, eps, jns) == p \in eps

\* the test that ends the loop at the point just appended
IsBoundary(p, eps, jns) == p \in eps \/ p \in jns

\* a version that drops the last point of the path
TraceDeadEnd_drops_last ==
    /\ pc = "trace"
    /\ LET g == Lookup(TheGraph, current)
       IN  /\ FirstUnvisited(current, g.adj[current], visited_edges) = 0
           /\ graph' = g.adj
           /\ graph_keys' = g.keys
    /\ path' = SubSeq(path, 1, Len(path) - 1)
    /\ pc' = "return"
    /\ UNCHANGED <<lines, original_line_count, endpoints, junctions, visited_edges, polylines, born,
                   phase, iter, ii, nbr, current,
                   outcome, runs, pure>>

\* no unvisited edge at current: the loop ends
TraceDeadEnd ==
    /\ pc = "trace"
    /\ LET g == Lookup(TheGraph, current)
       IN  /\ FirstUnvisited(current, g.adj[current], visited_edges) = 0
           /\ graph' = g.adj
           /\ graph_keys' = g.keys
    /\ pc' = "return"
    /\ UNCHANGED <<lines, original_line_count, endpoints, junctions, visited_edges, polylines, born,
                   phase, iter, ii, nbr, path, current,
                   outcome, runs, pure>>

\* a version that does not add the edge key to the visited-edge set
TraceStop_forgets ==
    /\ pc = "trace"
    /\ LET g == Lookup(TheGraph, current)
           k == FirstUnvisited(current, g.adj[current], visited_edges)
       IN  /\ k # 0
           /\ IsBoundary(g.adj[current][k], endpoints, junctions)
           /\ path' = Append(path, g.adj[current][k])
           /\ graph' = g.adj
           /\ graph_keys' = g.keys
    /\ pc' = "return"
    /\ UNCHANGED <<lines, original_line_count, endpoints, junctions, visited_edges, polylines, born,
                   phase, iter, ii, nbr, current,
                   outcome, runs, pure>>

\* an unvisited edge leads to an endpoint or junction: the loop ends there
TraceStop ==
    /\ pc = "trace"
    /\ LET g == Lookup(TheGraph, current)
           k == FirstUnvisited(current, g.adj[current], visited_edges)
       IN  /\ k # 0
           /\ IsBoundary(g.adj[current][k], endpoints, junctions)
           /\ visited_edges' =
                  visited_edges \cup {get_edge_key(current, g.adj[current][k])}
           /\ path' = Append(path, g.adj[current][k])
           /\ graph' = g.adj
           /\ graph_keys' = g.keys
    /\ pc' = "return"
    /\ UNCHANGED <<lines, original_line_count, endpoints, junctions, polylines, born, phase, iter, ii,
                   nbr, current,
                   outcome, runs, pure>>

\* a version that keeps no key but the new one in the visited-edge set
TraceExtend_clears ==
    /\ pc = "trace"
    /\ LET g == Lookup(TheGraph, current)
           k == FirstUnvisited(current, g.adj[current], visited_edges)
       IN  /\ k # 0
           /\ ~IsBoundary(g.adj[current][k], endpoints, junctions)
           /\ visited_edges' = {get_edge_key(current, g.adj[current][k])}
           /\ path' = Append(path, g.adj[current][k])
           /\ current' = g.adj[current][k]
           /\ graph' = g.adj
           /\ graph_keys' = g.keys
    /\ UNCHANGED <<lines, original_line_count, endpoints, junctions, polylines, born, pc, phase, iter,
                   ii, nbr,
                   outcome, runs, pure>>

\* a version that does not add the edge key to the visited-edge set
TraceExtend_forgets ==
    /\ pc = "trace"
    /\ LET g == Lookup(TheGraph, current)
           k == FirstUnvisited(current, g.adj[current], visited_edges)
       IN  /\ k # 0
           /\ ~IsBoundary(g.adj[current][k], endpoints, junctions)
           /\ path' = Append(path, g.adj[current][k])
           /\ current' = g.adj[current][k]
           /\ graph' = g.adj
           /\ graph_keys' = g.keys
    /\ UNCHANGED <<lines, original_line_count, endpoints, junctions, visited_edges, polylines, born,
                   pc, phase, iter, ii, nbr,
                   outcome, runs, pure>>

\* an unvisited edge leads to a pass-through point: the loop goes on from it
TraceExtend ==
    /\ pc = "trace"
    /\ LET g == Lookup(TheGraph, current)
           k == FirstUnvisited(current, g.adj[current], visited_edges)
       IN  /\ k # 0
           /\ ~IsBoundary(g.adj[current][k], endpoints, junctions)
           /\ visited_edges' =
                  visited_edges \cup {get_edge_key(current, g.adj[current][k])}
           /\ path' = Append(path, g.adj[current][k])
           /\ current' = g.adj[current][k]
           /\ graph' = g.adj
           /\ graph_keys' = g.keys
    /\ UNCHANGED <<lines, original_line_count, endpoints, junctions, polylines, born, pc, phase, iter,
                   ii, nbr,
                   outcome, runs, pure>>

\* a version that keeps every path
Return_keeps_all ==
    /\ pc = "return"
    /\ polylines' = Append(polylines, path)
    /\ born' = Append(born, phase)
    /\ path' = <<>>
    /\ current' = NoPoint
    /\ nbr' = nbr + 1
    /\ pc' = "inner"
    /\ UNCHANGED <<lines, original_line_count, graph, graph_keys, endpoints, junctions, visited_edges,
                   phase, iter, ii,
                   outcome, runs, pure>>

\* trace_path has returned: the path is kept when it has two points or more,
\* and the inner loop goes on with the next neighbor
Return ==
    /\ pc = "return"
    /\ IF Len(path) >= 2
       THEN /\ polylines' = Append(polylines, path)
            /\ born' = Append(born, phase)
       ELSE UNCHANGED <<polylines, born>>
    /\ path' = <<>>
    /\ current' = NoPoint
    /\ nbr' = nbr + 1
    /\ pc' = "inner"
    /\ UNCHANGED <<lines, original_line_count, graph, graph_keys, endpoints, junctions, visited_edges,
                   phase, iter, ii,
                   outcome, runs, pure>>

(***************************************************************************)
(* simplify_dxf_bytes after extract_polylines, and the HTTP handler         *)
(* simplify_file (app.py).  A ratio is kept as numerator and denominator.  *)
(***************************************************************************)
Ratio(n, d) == [num |-> n, den |-> d]

\* the new document with one LWPOLYLINE per polyline, and the statistics
WriteOutput ==
    /\ pc = "done"
    /\ output' = polylines
    /\ LET ej == find_endpoints_and_junctions(TheGraph)
       IN  stats' = [original_line_count |-> original_line_count,
                     unique_points       |-> Len(graph_keys),
                     endpoints           |-> Cardinality(ej.endpoints),
                     junctions           |-> Cardinality(ej.junctions),
                     polyline_count      |-> Len(polylines),
                     reduction_ratio     |->
                         IF Len(polylines) # 0
                         THEN Ratio(original_line_count, Len(polylines))
                         ELSE Ratio(0, 1)]
    /\ pc' = "written"
    /\ UNCHANGED <<lines, original_line_count, graph, graph_keys, endpoints, junctions, visited_edges,
                   polylines, born, phase, iter, ii, nbr, path, current,
                   status_code, runs, pure>>

\* simplify_file: a ValueError becomes the response 400
Respond400 ==
    /\ pc = "error"
    /\ status_code' = 400
    /\ pc' = "responded"
    /\ UNCHANGED <<lines, original_line_count, graph, graph_keys, endpoints, junctions, visited_edges,
                   polylines, born, phase, iter, ii, nbr, path, current,
                   output, stats, runs, pure>>

\* simplify_file: any other exception becomes the response 500
Respond500 ==
    /\ pc = "exception"
    /\ status_code' = 500
    /\ pc' = "responded"
    /\ UNCHANGED <<lines, original_line_count, graph, graph_keys, endpoints, junctions, visited_edges,
                   polylines, born, phase, iter, ii, nbr, path, current,
                   output, stats, runs, pure>>

\* simplify_file: the files and the statistics are sent
Respond200 ==
    /\ pc = "written"
    /\ status_code' = 200
    /\ pc' = "responded"
    /\ UNCHANGED <<lines, original_line_count, graph, graph_keys, endpoints, junctions, visited_edges,
                   polylines, born, phase, iter, ii, nbr, path, current,
                   output, stats, runs, pure>>

Next ==
    \/ ReadLine
    \/ EndRead
    \/ ReadFails
    \/ Reject
    \/ BuildGraph
    \/ BuildLine
    \/ EndBuild
    \/ BeginExtract
    \/ NextPoint
    \/ EndPhase1
    \/ EndPhase2
    \/ EndPhase3
    \/ EndInner
    \/ SkipNeighbor
    \/ CallTrace
    \/ TraceDeadEnd
    \/ TraceStop
    \/ TraceExtend
    \/ Return
    \/ WriteOutput
    \/ Respond400
    \/ Respond500
    \/ Respond200

Spec == Init /\ [][Next]_vars

(***************************************************************************)
(* The pipeline run on its own output: each consecutive point pair of each *)
(* returned polyline becomes a segment of the second run's input.          *)
(***************************************************************************)
PairsOf(pl) == [k \in 1..(Len(pl) - 1) |-> <<Raw(pl[k]), Raw(pl[k + 1])>>]

RECURSIVE SegmentsFrom(_, _)
SegmentsFrom(pls, i) ==
    IF i > Len(pls) THEN <<>> ELSE PairsOf(pls[i]) \o SegmentsFrom(pls, i + 1)

\* the points at which the polylines begin and end
Boundary(pls) == {pls[i][1] : i \in DOMAIN pls} \cup {pls[i][Len(pls[i])] : i \in DOMAIN pls}

\* some point has the same neighbor twice in its list
HasDuplicates(g) ==
    \E p \in DOMAIN g : \E a, b \in DOMAIN g[p] : a # b /\ g[p][a] = g[p][b]

\* the first run has returned: its polylines are the input of the second, and
\* what it returned is kept for the comparison
Rerun ==
    /\ pc = "done"
    /\ run = 1
    /\ first_run' = [polyline_count |-> Len(polylines),
                     visited_edges  |-> visited_edges,
                     boundary       |-> Boundary(polylines),
                     duplicates     |-> HasDuplicates(graph),
                     polylines      |-> <<>>,
                     end_pairs      |-> {}]
    /\ run' = 2
    /\ lines' = SegmentsFrom(polylines, 1)
    /\ original_line_count' = Len(SegmentsFrom(polylines, 1))
    /\ visited_edges' = {}
    /\ polylines' = <<>>
    /\ born' = <<>>
    /\ phase' = 0
    /\ iter' = <<>>
    /\ pc' = "start"
    /\ orders' = AnyOrders
    /\ UNCHANGED <<graph, graph_keys, endpoints, junctions, ii, nbr, path,
                   current, outcome, held, pure>>

RerunNext == Next \/ Rerun

RerunSpec == Init /\ [][RerunNext]_vars

(***************************************************************************)
(* The pipeline run twice on the same input, the sets of the second run    *)
(* iterating in the orders they iterated in during the first.              *)
(***************************************************************************)
\* a second run whose sets iterate in any order
Replay_free_order ==
    /\ pc = "done"
    /\ run = 1
    /\ first_run' = [polyline_count |-> Len(polylines),
                     visited_edges  |-> visited_edges,
                     boundary       |-> Boundary(polylines),
                     duplicates     |-> HasDuplicates(graph),
                     polylines      |-> polylines,
                     end_pairs      |-> {}]
    /\ run' = 2
    /\ held' = AnyOrders
    /\ orders' = AnyOrders
    /\ graph' = EmptyGraph.adj
    /\ graph_keys' = EmptyGraph.keys
    /\ endpoints' = {}
    /\ junctions' = {}
    /\ visited_edges' = {}
    /\ polylines' = <<>>
    /\ born' = <<>>
    /\ phase' = 0
    /\ iter' = <<>>
    /\ ii' = 0
    /\ nbr' = 0
    /\ pc' = "start"
    /\ UNCHANGED <<lines, original_line_count, path, current, outcome, pure>>

\* the first run has returned: the second starts on the same lines, with the
\* iteration orders of the first
Replay ==
    /\ pc = "done"
    /\ run = 1
    /\ first_run' = [polyline_count |-> Len(polylines),
                     visited_edges  |-> visited_edges,
                     boundary       |-> Boundary(polylines),
                     duplicates     |-> HasDuplicates(graph),
                     polylines      |-> polylines,
                     end_pairs      |-> {}]
    /\ run' = 2
    /\ held' = orders
    /\ orders' = AnyOrders
    /\ graph' = EmptyGraph.adj
    /\ graph_keys' = EmptyGraph.keys
    /\ endpoints' = {}
    /\ junctions' = {}
    /\ visited_edges' = {}
    /\ polylines' = <<>>
    /\ born' = <<>>
    /\ phase' = 0
    /\ iter' = <<>>
    /\ ii' = 0
    /\ nbr' = 0
    /\ pc' = "start"
    /\ UNCHANGED <<lines, original_line_count, path, current, outcome, pure>>

ReplayNext == Next \/ Replay

ReplaySpec == Init /\ [][ReplayNext]_vars

(***************************************************************************)
(* trace_path called where extract_polylines does not call it: at a point  *)
(* of the running loop none of whose edge keys is unvisited.               *)
(***************************************************************************)
DirectCall ==
    /\ pc = "inner"
    /\ nbr <= Len(graph[iter[ii]])
    /\ Unvisited(iter[ii], graph[iter[ii]], visited_edges) = {}
    /\ path' = <<iter[ii]>>
    /\ current' = iter[ii]
    /\ pc' = "trace"
    /\ UNCHANGED <<lines, original_line_count, graph, graph_keys, endpoints,
                   junctions, visited_edges, polylines, born, phase, iter, ii,
                   nbr, outcome, runs, pure>>

DirectNext == Next \/ DirectCall

DirectSpec == Init /\ [][DirectNext]_vars

\* the run is single-threaded and nothing suspends it: a step that can be
\* taken is taken
FairSpec == Spec /\ WF_vars(Next)

(***************************************************************************)
(* Notions the properties are stated in.  An edge is the unordered pair    *)
(* of its two points, whatever key the program files it under.             *)
(***************************************************************************)
Edge(p, q) == {p, q}

\* the edges of the graph
GraphEdges ==
    UNION {{Edge(p, graph[p][k]) : k \in DOMAIN graph[p]} : p \in DOMAIN graph}

\* the edges under the keys of the visited-edge set
VisitedEdges == {Edge(key[1], key[2]) : key \in visited_edges}

\* the edges formed by the consecutive point pairs of a polyline
PolyEdges(pl) == {Edge(pl[i], pl[i + 1]) : i \in 1..(Len(pl) - 1)}

Degree(p) == Len(graph[p])

Interior(pl) == 2..(Len(pl) - 1)

Closed(pl) == pl[1] = pl[Len(pl)]

Returned == pc = "done"

\* no two input segments joined the same two points
NoDuplicates ==
    \A p \in DOMAIN graph :
        \A a, b \in DOMAIN graph[p] : graph[p][a] = graph[p][b] => a = b

(***************************************************************************)
(* C1: once extract_polylines has returned, the edges formed by the        *)
(* consecutive point pairs of the output polylines are exactly the edges   *)
(* of the graph, and no edge occurs in two distinct polylines.             *)
(***************************************************************************)
C1_EdgeCoverage ==
    Returned =>
        /\ UNION {PolyEdges(polylines[i]) : i \in DOMAIN polylines} = GraphEdges
        /\ \A i, j \in DOMAIN polylines :
               i # j => PolyEdges(polylines[i]) \cap PolyEdges(polylines[j]) = {}

\* a run that returned two polylines over four edges
C1_Witness ==
    /\ Returned
    /\ Len(polylines) = 2
    /\ Cardinality(GraphEdges) = 4

(***************************************************************************)
(* C2: every trace_path call returns, extract_polylines returns (unless    *)
(* the document cannot be read or the empty input is rejected, and then it *)
(* is never called), and when it has returned every edge of the graph is   *)
(* in the visited-edge set.                                                *)
(***************************************************************************)
C2_Terminates ==
    /\ [](pc = "trace" => <>(pc = "return"))
    /\ <>(pc \in {"done", "error", "exception"})
    /\ [](pc \in {"build", "extract"} => <>(pc = "done"))
    /\ [](Returned => GraphEdges = VisitedEdges)

\* a run that returned after tracing a loop in the third phase
C2_Witness ==
    /\ Returned
    /\ \E i \in DOMAIN born : born[i] = 3 /\ Len(polylines[i]) >= 4
    /\ Cardinality(visited_edges) = 4

(***************************************************************************)
(* C3: no point of degree 1 or of degree 3 or more lies at an interior     *)
(* position of an output polyline.                                         *)
(***************************************************************************)
C3_BoundaryNotInterior ==
    \A i \in DOMAIN polylines :
        \A k \in Interior(polylines[i]) : Degree(polylines[i][k]) = 2

\* a polyline of three points or more that ends at a junction
C3_Witness ==
    \E i \in DOMAIN polylines :
        /\ Len(polylines[i]) >= 3
        /\ Degree(polylines[i][Len(polylines[i])]) >= 3
        /\ Degree(polylines[i][1]) = 1

(***************************************************************************)
(* C4: a point of degree 2 is the first or last point of an output         *)
(* polyline only if that polyline is a closed loop all of whose points     *)
(* have degree 2.                                                          *)
(***************************************************************************)
C4_PassThroughNotBoundary ==
    \A i \in DOMAIN polylines :
        LET pl == polylines[i]
        IN  (Degree(pl[1]) = 2 \/ Degree(pl[Len(pl)]) = 2) =>
                /\ Closed(pl)
                /\ \A k \in DOMAIN pl : Degree(pl[k]) = 2

(***************************************************************************)
(* C5, as stated: an output polyline is closed only when no endpoint and   *)
(* no junction lies on it.                                                 *)
(***************************************************************************)
C5_ClosedHasNoBoundary ==
    \A i \in DOMAIN polylines :
        Closed(polylines[i]) =>
            \A k \in DOMAIN polylines[i] : Degree(polylines[i][k]) = 2

(***************************************************************************)
(* C5, amended: an output polyline is closed only when no endpoint lies    *)
(* on it and no junction lies at an interior position of it; its common    *)
(* first and last point may be a junction.                                 *)
(***************************************************************************)
C5_ClosedHasNoInnerBoundary ==
    \A i \in DOMAIN polylines :
        Closed(polylines[i]) =>
            /\ \A k \in DOMAIN polylines[i] : Degree(polylines[i][k]) # 1
            /\ \A k \in Interior(polylines[i]) : Degree(polylines[i][k]) = 2

\* a closed polyline that starts and ends at a junction, in a graph without
\* duplicate segments
C5_Witness ==
    /\ NoDuplicates
    /\ \E i \in DOMAIN polylines :
           /\ Closed(polylines[i])
           /\ Degree(polylines[i][1]) >= 3

(***************************************************************************)
(* C6: in every output polyline no edge occurs twice and no point occurs   *)
(* at two positions other than the first and the last; and once            *)
(* extract_polylines has returned, the lengths minus one of the polylines  *)
(* add up to the number of distinct edges of the graph.                    *)
(***************************************************************************)
RECURSIVE SumSteps(_, _)
SumSteps(pls, i) ==
    IF i > Len(pls) THEN 0 ELSE (Len(pls[i]) - 1) + SumSteps(pls, i + 1)

C6_SimplePaths ==
    /\ \A i \in DOMAIN polylines :
           LET pl == polylines[i]
           IN  /\ \A a, b \in 1..(Len(pl) - 1) :
                      a # b => Edge(pl[a], pl[a + 1]) # Edge(pl[b], pl[b + 1])
               /\ \A a, b \in DOMAIN pl :
                      (a < b /\ pl[a] = pl[b]) => (a = 1 /\ b = Len(pl))
    /\ Returned => SumSteps(polylines, 1) = Cardinality(GraphEdges)

\* a run that returned a closed loop of four points and another polyline
C6_Witness ==
    /\ Returned
    /\ Len(polylines) >= 2
    /\ \E i \in DOMAIN polylines : Closed(polylines[i]) /\ Len(polylines[i]) = 4

(***************************************************************************)
(* Decompositions of a set of edges into simple paths and closed loops.    *)
(***************************************************************************)
Verts(S) == UNION S

DegIn(S, v) == Cardinality({e \in S : v \in e})

\* the edges of S joined to an edge of R by a chain of edges of S
RECURSIVE Grow(_, _)
Grow(S, R) ==
    LET T == R \cup {e \in S : \E f \in R : e \cap f # {}}
    IN  IF T = R THEN R ELSE Grow(S, T)

Connected(S) == Grow(S, {CHOOSE e \in S : TRUE}) = S

IsSimplePath(S) ==
    /\ S # {}
    /\ Connected(S)
    /\ \A v \in Verts(S) : DegIn(S, v) <= 2
    /\ Cardinality({v \in Verts(S) : DegIn(S, v) = 1}) = 2

IsLoop(S) ==
    /\ S # {}
    /\ Connected(S)
    /\ \A v \in Verts(S) : DegIn(S, v) = 2

\* a simple path that passes through no endpoint or junction, or a closed loop
\* with at most one junction on it (the point where it starts and ends)
IsBoundedPiece(S) ==
    \/ /\ IsSimplePath(S)
       /\ \A v \in Verts(S) : DegIn(S, v) = 2 => Degree(v) = 2
    \/ /\ IsLoop(S)
       /\ Cardinality({v \in Verts(S) : Degree(v) # 2}) <= 1

Least(T) == CHOOSE m \in T : \A n \in T : m <= n

\* the smallest number of members of V, pairwise disjoint, whose union is R
\* (every single edge is in V)
RECURSIVE MinCover(_, _)
MinCover(R, V) ==
    IF R = {} THEN 0
    ELSE LET e == CHOOSE x \in R : TRUE
         IN  Least({1 + MinCover(R \ S, V) : S \in {X \in V : e \in X /\ X \subseteq R}})

(***************************************************************************)
(* C7, as stated: the number of polylines returned is the smallest number  *)
(* of simple paths and closed loops into which the edges of the graph can  *)
(* be partitioned, and no two distinct polylines can be joined into one    *)
(* simple path.                                                            *)
(***************************************************************************)
C7_FewestPaths ==
    Returned =>
        /\ Len(polylines) =
               MinCover(GraphEdges,
                        {S \in SUBSET GraphEdges : IsSimplePath(S) \/ IsLoop(S)})
        /\ \A i, j \in DOMAIN polylines :
               i # j => ~IsSimplePath(PolyEdges(polylines[i]) \cup PolyEdges(polylines[j]))

(***************************************************************************)
(* C7, amended: the number of polylines returned is the smallest number    *)
(* of simple paths and closed loops into which the edges of the graph can  *)
(* be partitioned when no path passes through an endpoint or a junction    *)
(* (a closed loop may start and end at one), and no two distinct           *)
(* polylines can be joined into one such path.                             *)
(***************************************************************************)
C7_FewestBoundedPaths ==
    Returned =>
        /\ Len(polylines) =
               MinCover(GraphEdges, {S \in SUBSET GraphEdges : IsBoundedPiece(S)})
        /\ \A i, j \in DOMAIN polylines :
               i # j => ~IsBoundedPiece(PolyEdges(polylines[i]) \cup PolyEdges(polylines[j]))

\* a run on a graph without duplicate segments that returned three polylines,
\* two of which meet at a junction and could be joined there into one simple
\* path
C7_Witness ==
    /\ Returned
    /\ NoDuplicates
    /\ Len(polylines) = 3
    /\ \E i, j \in DOMAIN polylines :
           /\ i # j
           /\ IsSimplePath(PolyEdges(polylines[i]) \cup PolyEdges(polylines[j]))
           /\ Degree(polylines[i][Len(polylines[i])]) >= 3

(***************************************************************************)
(* The input, as build_graph reads it.                                     *)
(***************************************************************************)
GridPoints == {Grid[i] : i \in DOMAIN Grid}

CountIn(seq, x) == Cardinality({k \in DOMAIN seq : seq[k] = x})

\* the input segments whose rounded endpoints are A and B, in either direction
SegsBetween(A, B) ==
    {k \in DOMAIN lines : Edge(round_point(lines[k][1]), round_point(lines[k][2])) = {A, B}}

\* the input segments whose rounded endpoints differ
NonDegenerate ==
    {k \in DOMAIN lines : round_point(lines[k][1]) # round_point(lines[k][2])}

\* the consecutive point pairs of a polyline that join A and B
PairsIn(pl, A, B) == {k \in 1..(Len(pl) - 1) : Edge(pl[k], pl[k + 1]) = {A, B}}

RECURSIVE SumPairs(_, _, _, _)
SumPairs(pls, i, A, B) ==
    IF i > Len(pls) THEN 0
    ELSE Cardinality(PairsIn(pls[i], A, B)) + SumPairs(pls, i + 1, A, B)

RECURSIVE SumDegrees(_)
SumDegrees(i) ==
    IF i > Len(graph_keys) THEN 0 ELSE Degree(graph_keys[i]) + SumDegrees(i + 1)

\* build_graph has just returned
GraphReturned == pc = "extract"

\* build_graph has returned
Built == pc \in {"extract", "outer", "inner", "trace", "return", "done"}

\* find_endpoints_and_junctions has returned
Classified == pc \in {"outer", "inner", "trace", "return", "done"}

(***************************************************************************)
(* C8: when k >= 2 input segments join the same two points A and B, each   *)
(* of the two keeps k entries of the other in its neighbor list, and the   *)
(* returned polylines contain k consecutive pairs that join A and B.       *)
(***************************************************************************)
C8_DuplicatesTraced ==
    Built =>
        \A A, B \in GridPoints :
            (A # B /\ Cardinality(SegsBetween(A, B)) >= 2) =>
                /\ CountIn(graph[A], B) = Cardinality(SegsBetween(A, B))
                /\ CountIn(graph[B], A) = Cardinality(SegsBetween(A, B))
                /\ Returned =>
                       SumPairs(polylines, 1, A, B) = Cardinality(SegsBetween(A, B))

(***************************************************************************)
(* C9: the endpoints are exactly the points whose neighbor list has        *)
(* length 1 and the junctions exactly those whose list has length 3 or     *)
(* more, repeated neighbors counted each time; a point whose list holds    *)
(* one neighbor twice is in neither set; the two sets are disjoint.        *)
(***************************************************************************)
C9_DegreeClasses ==
    Classified =>
        /\ endpoints = {p \in DOMAIN graph : Len(graph[p]) = 1}
        /\ junctions = {p \in DOMAIN graph : Len(graph[p]) >= 3}
        /\ \A p \in DOMAIN graph :
               (Len(graph[p]) = 2 /\ graph[p][1] = graph[p][2]) =>
                   p \notin endpoints \cup junctions
        /\ endpoints \cap junctions = {}

\* a classified graph with an endpoint, a junction, and a point joined to
\* one neighbor by two segments
C9_Witness ==
    /\ Classified
    /\ endpoints # {}
    /\ junctions # {}
    /\ \E p \in DOMAIN graph : Len(graph[p]) = 2 /\ graph[p][1] = graph[p][2]

(***************************************************************************)
(* C10: when build_graph returns, B occurs in the neighbor list of A as     *)
(* often as input segments have the rounded endpoints A and B (in either   *)
(* direction), and A never occurs in its own list; so a segment whose      *)
(* rounded endpoints are equal adds no entry and no point, the lists are   *)
(* symmetric, every graph point has a neighbor, and the degrees add up to  *)
(* twice the number of non-degenerate segments.                            *)
(***************************************************************************)
C10_NeighborCounts ==
    GraphReturned =>
        /\ DOMAIN graph =
               {A \in GridPoints : \E B \in GridPoints \ {A} : SegsBetween(A, B) # {}}
        /\ \A A \in DOMAIN graph :
               /\ \A B \in GridPoints \ {A} :
                      CountIn(graph[A], B) = Cardinality(SegsBetween(A, B))
               /\ CountIn(graph[A], A) = 0
               /\ \A B \in DOMAIN graph : CountIn(graph[A], B) = CountIn(graph[B], A)
               /\ Degree(A) >= 1
        /\ SumDegrees(1) = 2 * Cardinality(NonDegenerate)

\* a built graph whose input held a segment with equal rounded endpoints but
\* different raw ones, and two segments joining the same points in opposite
\* directions
C10_Witness ==
    /\ GraphReturned
    /\ \E k \in DOMAIN lines :
           /\ lines[k][1] # lines[k][2]
           /\ round_point(lines[k][1]) = round_point(lines[k][2])
    /\ \E k, m \in DOMAIN lines :
           /\ lines[k][1] = lines[m][2]
           /\ lines[k][2] = lines[m][1]
           /\ k # m
    /\ Cardinality(DOMAIN graph) = 3

(***************************************************************************)
(* The input of three segments that meet at Grid[2] = (1,0):               *)
(* (0,0)-(1,0), (1,0)-(2,0) and (1,0)-(1,1), in any order.                 *)
(***************************************************************************)
YEdges == {Edge(Grid[1], Grid[2]), Edge(Grid[2], Grid[3]), Edge(Grid[2], Grid[4])}

YInput ==
    /\ Len(lines) = Cardinality(YEdges)
    /\ {Edge(round_point(lines[k][1]), round_point(lines[k][2])) : k \in DOMAIN lines} = YEdges

\* the polylines cover the edges of S, each exactly once
CoverOnce(pls, S) ==
    /\ UNION {PolyEdges(pls[i]) : i \in DOMAIN pls} = S
    /\ SumSteps(pls, 1) = Cardinality(S)

(***************************************************************************)
(* C11, as stated: for the three segments (0,0)-(1,0), (1,0)-(2,0),        *)
(* (1,0)-(1,1) extract_polylines returns exactly two polylines, each       *)
(* starting at the junction (1,0) and ending at a point of degree 1, that  *)
(* together cover the three edges exactly once.                            *)
(***************************************************************************)
C11_TwoFromJunction ==
    (Returned /\ YInput) =>
        /\ Len(polylines) = 2
        /\ \A i \in DOMAIN polylines :
               /\ polylines[i][1] = Grid[2]
               /\ Degree(polylines[i][Len(polylines[i])]) = 1
        /\ CoverOnce(polylines, YEdges)

(***************************************************************************)
(* C11, amended: for the three segments (0,0)-(1,0), (1,0)-(2,0),          *)
(* (1,0)-(1,1) extract_polylines returns exactly three polylines of two    *)
(* points, all traced in the first phase, each starting at one of the      *)
(* three points of degree 1 and ending at the junction (1,0), that         *)
(* together cover the three edges exactly once.                            *)
(***************************************************************************)
C11_ThreeToJunction ==
    (Returned /\ YInput) =>
        /\ Len(polylines) = 3
        /\ \A i \in DOMAIN polylines :
               /\ Len(polylines[i]) = 2
               /\ Degree(polylines[i][1]) = 1
               /\ polylines[i][2] = Grid[2]
               /\ born[i] = 1
        /\ CoverOnce(polylines, YEdges)

\* a run on the three segments has returned
C11_Witness ==
    /\ Returned
    /\ YInput
    /\ Degree(Grid[2]) = 3
    /\ Len(polylines) = 3

(***************************************************************************)
(* Inputs whose segments all have distinct rounded ends and join distinct  *)
(* pairs of points.                                                        *)
(***************************************************************************)
AllDistinctSegments == Len(lines) = Cardinality(GraphEdges)

\* an open chain: n segments over n + 1 distinct points
ChainInput == AllDistinctSegments /\ IsSimplePath(GraphEdges)

\* a closed cycle: n segments over n distinct points
CycleInput == AllDistinctSegments /\ IsLoop(GraphEdges)

(***************************************************************************)
(* C12: for an open chain of n >= 1 segments over n + 1 distinct points,   *)
(* in any order and direction, extract_polylines returns exactly one       *)
(* polyline; it has n + 1 distinct points, begins at one point of degree 1 *)
(* and ends at the other, and its consecutive pairs are the edges of the   *)
(* chain.                                                                  *)
(***************************************************************************)
C12_ChainOnePolyline ==
    (Returned /\ ChainInput) =>
        /\ Len(polylines) = 1
        /\ LET pl == polylines[1]
           IN  /\ Len(pl) = Len(lines) + 1
               /\ Degree(pl[1]) = 1
               /\ Degree(pl[Len(pl)]) = 1
               /\ \A a, b \in DOMAIN pl : pl[a] = pl[b] => a = b
               /\ PolyEdges(pl) = GraphEdges
        /\ born = <<1>>

\* a run on a chain of three segments, not given in the order of the chain,
\* has returned
C12_Witness ==
    /\ Returned
    /\ ChainInput
    /\ Len(lines) = 3
    /\ Len(polylines) = 1
    /\ round_point(lines[1][2]) # round_point(lines[2][1])
    /\ round_point(lines[1][1]) # round_point(lines[2][1])

(***************************************************************************)
(* C13: for a closed cycle of n >= 3 segments over n distinct points, the  *)
(* first two phases of extract_polylines append no polyline and the third  *)
(* appends exactly one; it has n + 1 points, its first and last points are *)
(* equal, and its consecutive pairs are the edges of the cycle.            *)
(***************************************************************************)
C13_CycleOneLoop ==
    /\ (Classified /\ CycleInput /\ phase < 3) => polylines = <<>>
    /\ (Returned /\ CycleInput) =>
           /\ Len(lines) >= 3
           /\ Len(polylines) = 1
           /\ born = <<3>>
           /\ Len(polylines[1]) = Len(lines) + 1
           /\ Closed(polylines[1])
           /\ PolyEdges(polylines[1]) = GraphEdges

\* a run on the four sides of a quadrilateral has returned
C13_Witness ==
    /\ Returned
    /\ CycleInput
    /\ Len(lines) = 4
    /\ Len(polylines) = 1

(***************************************************************************)
(* C14: every polyline appended in the third phase of extract_polylines    *)
(* is a closed loop: its first and last points are equal and every point   *)
(* on it has degree 2.                                                     *)
(***************************************************************************)
C14_Phase3Closed ==
    \A i \in DOMAIN polylines :
        born[i] = 3 =>
            /\ Closed(polylines[i])
            /\ \A k \in DOMAIN polylines[i] : Degree(polylines[i][k]) = 2

(***************************************************************************)
(* C15: when the pipeline is run on its own output, the second run returns *)
(* the same set of edge keys, the same number of polylines and the same    *)
(* set of first and last points as the first run, for every input,         *)
(* inputs with duplicate segments included.                                *)
(***************************************************************************)
C15_RerunSame ==
    (Returned /\ run = 2) =>
        /\ visited_edges = first_run.visited_edges
        /\ Len(polylines) = first_run.polyline_count
        /\ Boundary(polylines) = first_run.boundary

\* the phase whose loop starts traces at a point of this degree
PhaseOfStart(p) == IF Degree(p) = 1 THEN 1 ELSE IF Degree(p) >= 3 THEN 2 ELSE 3

(***************************************************************************)
(* C16: in the list of polylines, those traced in the first phase come     *)
(* before those traced in the second, which come before those traced in    *)
(* the third; a polyline traced in the first phase starts at an endpoint,  *)
(* in the second at a junction and in the third at a point of degree 2,    *)
(* and so does every trace in progress; and the phases never go back: no   *)
(* trace of a later phase starts before the loop of an earlier phase is    *)
(* exhausted.                                                              *)
(***************************************************************************)
C16_PhaseOrder ==
    /\ [](/\ \A i \in DOMAIN polylines :
                /\ born[i] = PhaseOfStart(polylines[i][1])
                /\ born[i] <= phase
                /\ \A j \in DOMAIN polylines : i < j => born[i] <= born[j]
          /\ pc \in {"trace", "return"} => phase = PhaseOfStart(path[1]))
    /\ [][/\ phase' >= phase
          /\ phase' > phase =>
                 (pc = "extract" \/ (pc = "outer" /\ ii > Len(iter)))]_vars

\* a run that returned a polyline of the first phase followed by one of the
\* second, on a graph without duplicate segments
C16_Witness ==
    /\ Returned
    /\ NoDuplicates
    /\ \E i \in DOMAIN born : i < Len(born) /\ born[i] = 1 /\ born[i + 1] = 2

\* the polylines a point occurs in
PolylinesAt(p) == {i \in DOMAIN polylines : \E k \in DOMAIN polylines[i] : polylines[i][k] = p}

\* every edge at p is in the visited-edge set
Drained(p) == \A k \in DOMAIN graph[p] : Edge(p, graph[p][k]) \in VisitedEdges

(***************************************************************************)
(* C17: once extract_polylines has returned, every point of degree 1 lies  *)
(* on exactly one polyline, and there only at the first or the last        *)
(* position; and from the moment the loop over the endpoints is exhausted  *)
(* every edge at a point of degree 1 is in the visited-edge set.           *)
(***************************************************************************)
C17_EndpointsBound ==
    /\ Returned =>
           \A e \in DOMAIN graph :
               Degree(e) = 1 =>
                   /\ Cardinality(PolylinesAt(e)) = 1
                   /\ \A i \in PolylinesAt(e) : \A k \in Interior(polylines[i]) :
                          polylines[i][k] # e
    /\ (Classified /\ phase >= 2) =>
           \A e \in DOMAIN graph : Degree(e) = 1 => Drained(e)

\* the loop over the endpoints has just been exhausted, a polyline ends at an
\* endpoint, and edges away from the endpoints are still unvisited
C17_Witness ==
    /\ pc = "outer"
    /\ phase = 2
    /\ ii = 1
    /\ \E i \in DOMAIN polylines : Degree(polylines[i][1]) = 1
    /\ VisitedEdges # GraphEdges

(***************************************************************************)
(* C18: from the moment the loop over the junctions is exhausted every     *)
(* edge at a junction is in the visited-edge set; and once                 *)
(* extract_polylines has returned, every junction is the first or the last *)
(* point of some polyline and lies at no interior position of any.         *)
(***************************************************************************)
C18_JunctionsDrained ==
    /\ (Classified /\ phase = 3) =>
           \A j \in DOMAIN graph : Degree(j) >= 3 => Drained(j)
    /\ Returned =>
           \A j \in DOMAIN graph :
               Degree(j) >= 3 =>
                   /\ \E i \in DOMAIN polylines :
                          polylines[i][1] = j \/ polylines[i][Len(polylines[i])] = j
                   /\ \A i \in DOMAIN polylines : \A k \in Interior(polylines[i]) :
                          polylines[i][k] # j

\* the loop over the junctions has just been exhausted after tracing a
\* polyline of three points or more from a junction
C18_Witness ==
    /\ pc = "outer"
    /\ phase = 3
    /\ ii = 1
    /\ \E i \in DOMAIN polylines : born[i] = 2 /\ Len(polylines[i]) >= 3
    /\ \E j \in DOMAIN graph : Degree(j) >= 3

\* simplify_dxf_bytes has raised the ValueError and has returned nothing
NothingToSimplify ==
    /\ pc \in {"error", "responded"}
    /\ output = NoOutput
    /\ stats = NoStats
    /\ pc = "responded" => status_code = 400

(***************************************************************************)
(* C19: when the input has at least one segment and the rounded ends of    *)
(* every segment are equal, simplify_dxf_bytes ends as it does for an      *)
(* input without segments: it raises the "nothing to simplify" ValueError  *)
(* and returns no document and no statistics.                              *)
(***************************************************************************)
C19_DegenerateRejected ==
    (/\ pc \in {"error", "written", "responded"}
     /\ original_line_count >= 1
     /\ NonDegenerate = {}) => NothingToSimplify

(***************************************************************************)
(* C20: when the input has no segment, simplify_dxf_bytes raises the       *)
(* ValueError, which the HTTP handler answers with status 400 (not 500);   *)
(* build_graph and extract_polylines never run, and no polyline, document  *)
(* or statistics is produced.  The ValueError is raised in no other case.  *)
(***************************************************************************)
C20_EmptyRejected ==
    /\ original_line_count = 0 =>
           /\ pc \in {"start", "error", "responded"}
           /\ pc # "start" => NothingToSimplify
           /\ graph_keys = <<>>
           /\ phase = 0
           /\ visited_edges = {}
           /\ polylines = <<>>
    /\ pc = "error" => original_line_count = 0
    /\ status_code = 400 => original_line_count = 0

\* the handler has answered an input without segments
C20_Witness ==
    /\ original_line_count = 0
    /\ pc = "responded"
    /\ status_code = 400

(***************************************************************************)
(* C21: in the statistics simplify_dxf_bytes returns, the reduction ratio  *)
(* is the original segment count divided by the polyline count when the    *)
(* polyline count is positive, and there is no reduction ratio among the   *)
(* statistics when the polyline count is zero.                             *)
(***************************************************************************)
C21_RatioReported ==
    stats # NoStats =>
        /\ stats.polyline_count > 0 =>
               stats.reduction_ratio = Ratio(original_line_count, Len(output))
        /\ stats.polyline_count = 0 => "reduction_ratio" \notin DOMAIN stats

KeyAt(p, k) == get_edge_key(p, graph[p][k])

(***************************************************************************)
(* C23: every step of trace_path that appends a point appends the entry at *)
(* the lowest position of the current point's neighbor list whose edge key *)
(* is not in the visited-edge set, and adds exactly that key to the set;   *)
(* and trace_path ends without appending only when no entry of the list    *)
(* has an unvisited edge key.                                              *)
(***************************************************************************)
C23_LowestFirst ==
    [][pc = "trace" =>
           IF path' # path
           THEN \E k \in DOMAIN graph[current] :
                    /\ KeyAt(current, k) \notin visited_edges
                    /\ \A m \in 1..(k - 1) : KeyAt(current, m) \in visited_edges
                    /\ path' = Append(path, graph[current][k])
                    /\ visited_edges' = visited_edges \cup {KeyAt(current, k)}
           ELSE /\ \A k \in DOMAIN graph[current] : KeyAt(current, k) \in visited_edges
                /\ visited_edges' = visited_edges]_vars

\* a step of trace_path has just appended the second entry of a list, past a
\* visited first entry and before an unvisited third one
C23_Witness ==
    /\ pc \in {"trace", "return"}
    /\ Len(path) = 2
    /\ Len(graph[path[1]]) >= 3
    /\ graph[path[1]][2] = path[2]
    /\ graph[path[1]][1] # path[2]
    /\ KeyAt(path[1], 3) \notin visited_edges

\* no entry of the neighbor list of p has an unvisited edge key
NoneUnvisited(p) == \A k \in DOMAIN graph[p] : KeyAt(p, k) \in visited_edges

\* trace_path has just been called by extract_polylines: the edge key of the
\* neighbor the inner loop is at is unvisited
CalledByExtract ==
    /\ pc = "trace"
    /\ Len(path) = 1
    /\ KeyAt(iter[ii], nbr) \notin visited_edges

(***************************************************************************)
(* C24: when extract_polylines calls trace_path the start has an unvisited *)
(* edge, the first step appends a point, the path never gets shorter, and  *)
(* a returned path of two points or more is appended to the list, so the   *)
(* test on the length discards none of these paths.  A call of trace_path  *)
(* at a start without an unvisited edge returns at once with the one-point *)
(* path of the start and the visited-edge set unchanged, and only the path *)
(* of such a call is discarded.                                            *)
(***************************************************************************)
C24_CallsHaveAnEdge ==
    /\ [][/\ CalledByExtract =>
                 (~NoneUnvisited(current) /\ Len(path') = 2)
          /\ (pc = "trace" /\ Len(path) = 1 /\ NoneUnvisited(current)) =>
                 /\ ~CalledByExtract
                 /\ pc' = "return"
                 /\ path' = <<current>>
                 /\ visited_edges' = visited_edges
          /\ pc = "trace" => Len(path') >= Len(path)
          /\ (pc = "return" /\ Len(path) >= 2) => polylines' = Append(polylines, path)
          /\ (pc = "return" /\ Len(path) < 2) => polylines' = polylines]_vars
    /\ [](pc = "return" /\ Len(path) < 2 =>
              (path = <<iter[ii]>> /\ NoneUnvisited(iter[ii])))

\* a call at a start without an unvisited edge has returned the one-point
\* path while other edges of the graph are unvisited
C24_Witness ==
    /\ pc = "return"
    /\ Len(path) = 1
    /\ VisitedEdges # GraphEdges

\* the edge keys of the graph
GraphKeys == UNION {{KeyAt(p, k) : k \in DOMAIN graph[p]} : p \in DOMAIN graph}

(***************************************************************************)
(* C25: during a run of extract_polylines the visited-edge set starts      *)
(* empty, no step removes a key from it, a step of trace_path that appends *)
(* a point adds exactly one key that was not in the set, no other step     *)
(* adds a key, and every key in the set is the key of an edge of the       *)
(* graph.                                                                  *)
(***************************************************************************)
C25_VisitedGrows ==
    /\ [][/\ pc = "extract" => visited_edges' = {}
          /\ Classified =>
                 /\ visited_edges \subseteq visited_edges'
                 /\ IF pc = "trace" /\ path' # path
                    THEN Cardinality(visited_edges' \ visited_edges) = 1
                    ELSE visited_edges' = visited_edges]_vars
    /\ [](Classified => visited_edges \subseteq GraphKeys)

\* a trace is in progress with three keys in the visited-edge set
C25_Witness ==
    /\ pc = "trace"
    /\ Cardinality(visited_edges) = 3
    /\ Len(polylines) >= 1

(***************************************************************************)
(* C26: extract_polylines and trace_path leave the graph, the endpoint set *)
(* and the junction set as they were: no neighbor list is modified, and no *)
(* lookup graph[...] adds a point to the graph's keys, every point looked  *)
(* up being a key already; of the data only the visited-edge set and the   *)
(* list of polylines change.                                               *)
(***************************************************************************)
C26_GraphReadOnly ==
    /\ [][/\ pc = "extract" => (graph' = graph /\ graph_keys' = graph_keys)
          /\ Classified =>
                 /\ graph' = graph
                 /\ graph_keys' = graph_keys
                 /\ endpoints' = endpoints
                 /\ junctions' = junctions
                 /\ lines' = lines]_vars
    /\ [](/\ pc = "inner" => iter[ii] \in DOMAIN graph
          /\ pc = "trace" => current \in DOMAIN graph
          /\ (phase = 3 /\ pc \in {"outer", "inner", "trace", "return"}) =>
                 iter = graph_keys)

\* the loop over the graph is tracing from the last of four points, after
\* polylines were traced from an endpoint and from a junction
C26_Witness ==
    /\ pc = "trace"
    /\ phase = 3
    /\ Len(graph_keys) = 4
    /\ current # path[1]
    /\ Len(polylines) >= 1

(***************************************************************************)
(* get_edge_key called by itself, on two pairs of points.                  *)
(***************************************************************************)
\* the pipeline at rest, while a function is called by itself
AtRest ==
    /\ lines = <<>>
    /\ graph = EmptyGraph.adj
    /\ graph_keys = <<>>
    /\ endpoints = {}
    /\ junctions = {}
    /\ visited_edges = {}
    /\ polylines = <<>>
    /\ born = <<>>
    /\ phase = 0
    /\ iter = <<>>
    /\ ii = 0
    /\ nbr = 0
    /\ path = <<>>
    /\ current = NoPoint
    /\ output = NoOutput
    /\ stats = NoStats
    /\ status_code = 0
    /\ run = 1
    /\ first_run = NoRun
    /\ original_line_count = NoCount
    /\ held = AnyOrders
    /\ orders = AnyOrders

pipeline == <<lines, graph, graph_keys, endpoints, junctions, visited_edges,
              polylines, born, phase, iter, ii, nbr, path, current,
              outcome, runs, original_line_count>>

\* the points get_edge_key is called with: every pair of rounded
\* coordinates up to SubSteps, so that points differ in x only, in y only,
\* and in both with the two orders disagreeing
KeyPoints == (0..SubSteps) \X (0..SubSteps)

KeyInit ==
    /\ AtRest
    /\ pc = "key"
    /\ points \in KeyPoints \X KeyPoints \X KeyPoints \X KeyPoints
    /\ keys = <<>>
    /\ path_d = <<>>
    /\ parser = NoParser

\* get_edge_key(p, q) and get_edge_key(r, s)
ApplyKey ==
    /\ pc = "key"
    /\ keys' = <<get_edge_key(points[1], points[2]),
                 get_edge_key(points[3], points[4])>>
    /\ pc' = "keyed"
    /\ UNCHANGED <<pipeline, points, path_d, parser>>

KeyNext == ApplyKey

KeySpec == KeyInit /\ [][KeyNext]_vars

(***************************************************************************)
(* C27: get_edge_key does not depend on the order of its two points, and   *)
(* two calls return the same key only for the same unordered pair of       *)
(* points: get_edge_key(p, q) = get_edge_key(q, p), and get_edge_key(p, q) *)
(* = get_edge_key(r, s) exactly when {p, q} = {r, s}; so two segments      *)
(* with the same two ends have one key, whichever way each was given.      *)
(***************************************************************************)
C27_KeyOfUnorderedPair ==
    pc = "keyed" =>
        /\ (points[3] = points[2] /\ points[4] = points[1]) =>
               keys[1] = keys[2]
        /\ ({points[1], points[2]} = {points[3], points[4]}) <=>
               keys[1] = keys[2]

\* the key was taken of a pair and of the reversed pair, of two points
\* with the same x, the first the larger
C27_Witness ==
    /\ pc = "keyed"
    /\ points[3] = points[2]
    /\ points[4] = points[1]
    /\ points[1][1] = points[2][1]
    /\ points[1][2] > points[2][2]
    /\ keys[1] = <<points[2], points[1]>>

(***************************************************************************)
(* A second call of the pipeline on the same segments, listed in another   *)
(* order and with some of them reversed; the sets iterate in any order in  *)
(* both calls.                                                             *)
(***************************************************************************)
\* the unordered pair of the first and the last point of a polyline
EndsOf(pl) == {pl[1], pl[Len(pl)]}

\* the multiset of the unordered end pairs of the polylines: each pair with
\* the number of polylines that have it
EndPairs(pls) ==
    {<<EndsOf(pls[i]),
       Cardinality({j \in DOMAIN pls : EndsOf(pls[j]) = EndsOf(pls[i])})>> :
         i \in DOMAIN pls}

\* the segment lists with the segments of l in any order, each in either
\* direction
Variants(l) ==
    {[k \in DOMAIN l |->
         IF k \in R THEN <<l[s[k]][2], l[s[k]][1]>> ELSE l[s[k]]] :
       s \in Perms(DOMAIN l), R \in SUBSET DOMAIN l}

Permute ==
    /\ pc = "done"
    /\ run = 1
    /\ lines' \in Variants(lines)
    /\ first_run' = [polyline_count |-> Len(polylines),
                     visited_edges  |-> visited_edges,
                     boundary       |-> Boundary(polylines),
                     duplicates     |-> HasDuplicates(graph),
                     polylines      |-> <<>>,
                     end_pairs      |-> EndPairs(polylines)]
    /\ run' = 2
    /\ orders' = AnyOrders
    /\ graph' = EmptyGraph.adj
    /\ graph_keys' = EmptyGraph.keys
    /\ endpoints' = {}
    /\ junctions' = {}
    /\ visited_edges' = {}
    /\ polylines' = <<>>
    /\ born' = <<>>
    /\ phase' = 0
    /\ iter' = <<>>
    /\ ii' = 0
    /\ nbr' = 0
    /\ pc' = "start"
    /\ UNCHANGED <<original_line_count, path, current, outcome, held, pure>>

PermuteNext == Next \/ Permute

PermuteSpec == Init /\ [][PermuteNext]_vars

\* the end pairs of the polylines that are open or closed at a junction
Anchored(pairs) ==
    {x \in pairs : Cardinality(x[1]) = 2 \/ x[1] \subseteq junctions}

C29_CountBounded ==
    /\ Returned =>
           /\ Len(polylines) <= Cardinality(NonDegenerate)
           /\ \A i \in DOMAIN polylines :
                \E e \in PolyEdges(polylines[i]) :
                   \A j \in DOMAIN polylines \ {i} :
                      e \notin PolyEdges(polylines[j])
    /\ (stats # NoStats /\ stats.polyline_count > 0) =>
           /\ stats.polyline_count <= Cardinality(NonDegenerate)
           /\ stats.reduction_ratio.num >= stats.reduction_ratio.den

\* statistics were made of three polylines, as many as there are
\* non-degenerate segments, from a list that has a degenerate segment too
C29_Witness ==
    /\ pc = "written"
    /\ stats.polyline_count = 3
    /\ Cardinality(NonDegenerate) = 3
    /\ stats.original_line_count = 4
    /\ stats.reduction_ratio = Ratio(4, 3)

(***************************************************************************)
(* The text of a path's d attribute: a sequence of characters.  A          *)
(* coordinate is a whole number of rounded units, a unit being 10^-6.      *)
(***************************************************************************)
\* round_point rounds to this many decimals
Decimals == 6

DigitChars == <<"0", "1", "2", "3", "4", "5", "6", "7", "8", "9">>

IsDigit(c) == \E n \in DOMAIN DigitChars : DigitChars[n] = c

DigitVal(c) == (CHOOSE n \in DOMAIN DigitChars : DigitChars[n] = c) - 1

Abs(v) == IF v < 0 THEN 0 - v ELSE v

RECURSIVE DecDigits(_)
\* the decimal digits of a natural number, the most significant first
DecDigits(n) ==
    IF n < 10 THEN <<DigitChars[n + 1]>>
    ELSE Append(DecDigits(n \div 10), DigitChars[(n % 10) + 1])

RECURSIVE StripZeros(_)
\* the digits without their trailing zeros
StripZeros(ds) ==
    IF Len(ds) > 1 /\ ds[Len(ds)] = "0"
    THEN StripZeros(SubSeq(ds, 1, Len(ds) - 1))
    ELSE ds

Zeros(k) == [j \in 1..k |-> "0"]

\* f"{x}" of a float x that is v units: the shortest digits that give x
\* back, in scientific notation when the exponent is below -4 (or 16 and
\* above), with ".0" when x is whole
FormatFloat(v) ==
    IF v = 0 THEN <<"0", ".", "0">>
    ELSE
      LET all   == DecDigits(Abs(v))
          ds    == StripZeros(all)
          n     == Len(ds)
          decpt == Len(all) - Decimals
          exp   == decpt - 1
          sign  == IF v < 0 THEN <<"-">> ELSE <<>>
          body  ==
            IF decpt < -3 \/ decpt > 16
            THEN (IF n = 1 THEN <<ds[1]>>
                  ELSE <<ds[1], ".">> \o SubSeq(ds, 2, n))
                 \o <<"e", IF exp < 0 THEN "-" ELSE "+">>
                 \o (IF Abs(exp) < 10 THEN <<"0">> ELSE <<>>)
                 \o DecDigits(Abs(exp))
            ELSE IF decpt <= 0
            THEN <<"0", ".">> \o Zeros(0 - decpt) \o ds
            ELSE IF decpt < n
            THEN SubSeq(ds, 1, decpt) \o <<".">> \o SubSeq(ds, decpt + 1, n)
            ELSE ds \o Zeros(decpt - n) \o <<".", "0">>
      IN  sign \o body

RECURSIVE NatOf(_)
\* the natural number some digits write
NatOf(ds) ==
    IF ds = <<>> THEN 0
    ELSE 10 * NatOf(SubSeq(ds, 1, Len(ds) - 1)) + DigitVal(ds[Len(ds)])

\* the first position of one of the characters cs in s, or 0
First(s, cs) ==
    IF \E k \in DOMAIN s : s[k] \in cs
    THEN CHOOSE k \in DOMAIN s : s[k] \in cs /\ \A j \in 1..(k - 1) : s[j] \notin cs
    ELSE 0

\* float(text), in raw sub-steps: the mantissa's digits, moved by the
\* exponent and by the place of the point
ParseFloat(t) ==
    LET neg  == t[1] = "-"
        s    == IF neg THEN Tail(t) ELSE t
        e    == First(s, {"e", "E"})
        mant == IF e = 0 THEN s ELSE SubSeq(s, 1, e - 1)
        ex   == IF e = 0 THEN <<>> ELSE SubSeq(s, e + 1, Len(s))
        dot  == First(mant, {"."})
        int  == IF dot = 0 THEN mant ELSE SubSeq(mant, 1, dot - 1)
        frac == IF dot = 0 THEN <<>> ELSE SubSeq(mant, dot + 1, Len(mant))
        m    == NatOf(int \o frac)
        E    == IF ex = <<>> THEN 0
                ELSE IF ex[1] = "-" THEN 0 - NatOf(Tail(ex))
                ELSE IF ex[1] = "+" THEN NatOf(Tail(ex))
                ELSE NatOf(ex)
        p    == E + Decimals - Len(frac)
        mag  == IF p >= 0 THEN m * (10 ^ p) * SubSteps
                ELSE (m * SubSteps) \div (10 ^ (0 - p))
    IN  IF neg THEN 0 - mag ELSE mag

(***************************************************************************)
(* polyline_to_path_d                                                      *)
(***************************************************************************)
\* f"M {x},{y}" and f"L {x},{y}"
Part(letter, point) ==
    <<letter, " ">> \o FormatFloat(point[1]) \o <<",">> \o FormatFloat(point[2])

RECURSIVE Join(_)
\* " ".join(parts)
Join(parts) ==
    IF parts = <<>> THEN <<>>
    ELSE IF Len(parts) = 1 THEN parts[1]
    ELSE parts[1] \o <<" ">> \o Join(Tail(parts))

\* a rendering that ends every path of three points or more with Z
polyline_to_path_d_always_closes(pts) ==
    IF pts = <<>> THEN <<>>
    ELSE
      LET parts == [k \in DOMAIN pts |->
                       IF k = 1 THEN Part("M", pts[k]) ELSE Part("L", pts[k])]
      IN  Join(IF Len(pts) >= 3
               THEN [parts EXCEPT ![Len(parts)] = <<"Z">>]
               ELSE parts)

polyline_to_path_d(pts) ==
    IF pts = <<>> THEN <<>>
    ELSE
      LET parts == [k \in DOMAIN pts |->
                       IF k = 1 THEN Part("M", pts[k]) ELSE Part("L", pts[k])]
      IN  Join(IF Len(pts) >= 3 /\ pts[1] = pts[Len(pts)]
               THEN [parts EXCEPT ![Len(parts)] = <<"Z">>]
               ELSE parts)

(***************************************************************************)
(* parse_path_d: the tokens.  A token is a pair <<command, number>>, one   *)
(* of the two empty, as re.findall returns for a pattern of two groups.    *)
(***************************************************************************)
Commands == {"M", "L", "H", "V", "Z", "m", "l", "h", "v", "z"}

At(s, i) == IF i \in DOMAIN s THEN s[i] ELSE ""

RECURSIVE DigitsEnd(_, _)
\* the position after the digits that start at i (\d*)
DigitsEnd(s, i) == IF IsDigit(At(s, i)) THEN DigitsEnd(s, i + 1) ELSE i

\* the position after the number that starts at i, or i if none does:
\* -?(?:\d+\.?\d*|\.\d+)(?:[eE][+-]?\d+)?
NumberEnd(s, i) ==
    LET a == IF At(s, i) = "-" THEN i + 1 ELSE i
        m == IF IsDigit(At(s, a))
             THEN LET b == DigitsEnd(s, a)
                  IN  IF At(s, b) = "." THEN DigitsEnd(s, b + 1) ELSE b
             ELSE IF At(s, a) = "." /\ IsDigit(At(s, a + 1))
             THEN DigitsEnd(s, a + 1)
             ELSE 0
        c == IF At(s, m + 1) \in {"+", "-"} THEN m + 2 ELSE m + 1
    IN  IF m = 0 THEN i
        ELSE IF At(s, m) \in {"e", "E"} /\ IsDigit(At(s, c))
        THEN DigitsEnd(s, c)
        ELSE m

RECURSIVE Tokens(_, _)
\* re.findall(token_pattern, d), from position i on
Tokens(s, i) ==
    IF i > Len(s) THEN <<>>
    ELSE IF s[i] \in Commands
    THEN << <<s[i], <<>>>> >> \o Tokens(s, i + 1)
    ELSE LET j == NumberEnd(s, i)
         IN  IF j > i
             THEN << <<"", SubSeq(s, i, j - 1)>> >> \o Tokens(s, j)
             ELSE Tokens(s, i + 1)

(***************************************************************************)
(* polyline_to_path_d and parse_path_d called by themselves: a polyline is *)
(* rendered, and the text is parsed, one token or pair of tokens a step.   *)
(* parser.i counts the tokens from 1.                                      *)
(***************************************************************************)
\* the points of the polylines rendered: coordinates that are written as
\* 0.0, 1e-06, 1.5, 1e-05, -2e-06 and 0.0001
PathPoints == {<<0, 0>>, <<1, 0>>, <<1500000, 10>>, <<-2, 100>>}

\* the polylines rendered: up to MaxSegs + 1 points, any of them equal
PathInit ==
    /\ AtRest
    /\ pc = "render"
    /\ \E n \in 0..(MaxSegs + 1) : points \in [1..n -> PathPoints]
    /\ keys = <<>>
    /\ path_d = <<>>
    /\ parser = NoParser

Render ==
    /\ pc = "render"
    /\ path_d' = polyline_to_path_d(points)
    /\ pc' = "tokenize"
    /\ UNCHANGED <<pipeline, points, keys, parser>>

\* the tokens and the first values of the locals
Tokenize ==
    /\ pc = "tokenize"
    /\ parser' = [tokens      |-> Tokens(path_d, 1),
                  i           |-> 1,
                  command     |-> "M",
                  current_pos |-> <<0, 0>>,
                  path_start  |-> <<0, 0>>,
                  segments    |-> <<>>]
    /\ pc' = "parse"
    /\ UNCHANGED <<pipeline, points, keys, path_d>>

\* segments.append((start, end)) unless start = end; current_pos = new_pos
LineTo(ps, new_pos, next_i) ==
    LET start == round_point(ps.current_pos)
        end   == round_point(new_pos)
    IN  [ps EXCEPT !.i = next_i,
                   !.segments = IF start # end THEN Append(@, <<start, end>>) ELSE @,
                   !.current_pos = new_pos]

\* the token is a command
ParseCommand ==
    /\ pc = "parse"
    /\ parser.i <= Len(parser.tokens)
    /\ parser.tokens[parser.i][1] # ""
    /\ LET command == parser.tokens[parser.i][1]
           ps      == [parser EXCEPT !.command = command]
       IN  parser' = IF command \in {"Z", "z"}
                     THEN LineTo(ps, parser.path_start, parser.i + 1)
                     ELSE [ps EXCEPT !.i = @ + 1]
    /\ UNCHANGED <<pipeline, pc, points, keys, path_d>>

\* the token is a number
ParseNumber ==
    /\ pc = "parse"
    /\ parser.i <= Len(parser.tokens)
    /\ parser.tokens[parser.i][1] = ""
    /\ LET t       == parser.tokens
           i       == parser.i
           command == parser.command
           cur     == parser.current_pos
           x       == ParseFloat(t[i][2])
           hasY    == i + 1 <= Len(t) /\ t[i + 1][2] # <<>>
           y       == ParseFloat(t[i + 1][2])
       IN  parser' =
             IF command \in {"M", "m"}
             THEN IF ~hasY THEN [parser EXCEPT !.i = i + 1]
                  ELSE LET pos == IF command = "m"
                                  THEN <<cur[1] + x, cur[2] + y>>
                                  ELSE <<x, y>>
                       IN  [parser EXCEPT !.i = i + 2,
                                          !.current_pos = pos,
                                          !.path_start = pos,
                                          !.command = IF command = "M" THEN "L" ELSE "l"]
             ELSE IF command \in {"L", "l"}
             THEN IF ~hasY THEN [parser EXCEPT !.i = i + 1]
                  ELSE LineTo(parser,
                              IF command = "l"
                              THEN <<cur[1] + x, cur[2] + y>>
                              ELSE <<x, y>>,
                              i + 2)
             ELSE IF command \in {"H", "h"}
             THEN LineTo(parser,
                         <<IF command = "h" THEN cur[1] + x ELSE x, cur[2]>>,
                         i + 1)
             ELSE IF command \in {"V", "v"}
             THEN LineTo(parser,
                         <<cur[1], IF command = "v" THEN cur[2] + x ELSE x>>,
                         i + 1)
             ELSE [parser EXCEPT !.i = i + 1]
    /\ UNCHANGED <<pipeline, pc, points, keys, path_d>>

\* return segments
ParseReturn ==
    /\ pc = "parse"
    /\ parser.i > Len(parser.tokens)
    /\ pc' = "parsed"
    /\ UNCHANGED <<pipeline, pure>>

PathNext ==
    \/ Render
    \/ Tokenize
    \/ ParseCommand
    \/ ParseNumber
    \/ ParseReturn

PathSpec == PathInit /\ [][PathNext]_vars

(***************************************************************************)
(* C30: rendering a polyline and parsing the text again is a round trip:   *)
(* for every polyline of two points or more with no two consecutive points *)
(* equal, parse_path_d(polyline_to_path_d(P)) is the list of the           *)
(* consecutive pairs of points of P, in order; also when P is closed       *)
(* (first = last, three points or more), its last line command being       *)
(* replaced by Z, which the parser makes a segment from the current        *)
(* position back to the point of the initial M.                            *)
(***************************************************************************)
C30_RoundTrip ==
    /\ (/\ pc = "parsed"
        /\ Len(points) >= 2
        /\ \A k \in 1..(Len(points) - 1) : points[k] # points[k + 1]) =>
           parser.segments =
               [k \in 1..(Len(points) - 1) |-> <<points[k], points[k + 1]>>]
    /\ (/\ pc \in {"tokenize", "parse", "parsed"}
        /\ Len(points) >= 3
        /\ points[1] = points[Len(points)]) =>
           /\ path_d[Len(path_d)] = "Z"
           /\ \A k \in 1..(Len(path_d) - 1) : path_d[k] # "Z"
    /\ (pc = "parse" /\ parser.command = "Z") =>
           /\ parser.current_pos = parser.path_start
           /\ round_point(parser.path_start) = points[1]

\* a closed polyline of five points, one of them with a negative
\* coordinate, was rendered with Z and parsed into four segments
C30_Witness ==
    /\ pc = "parsed"
    /\ Len(points) = 5
    /\ points[1] = points[5]
    /\ \A k \in 1..4 : points[k] # points[k + 1]
    /\ \E k \in 1..5 : points[k][1] < 0
    /\ path_d[Len(path_d)] = "Z"
    /\ Len(parser.segments) = 4
    /\ parser.segments[4] = <<points[4], points[1]>>

=============================================================================
